---- MODULE Spec2Model ----
(***************************************************************************)
(* Model of the VM device kill switch daemon                               *)
(* (src/vm_killswitch_implementation.py).                                  *)
(*                                                                         *)
(* The daemon is one Python thread.  Its call stack is the sequence        *)
(* `stack`: stack[1] is the activation of KillSwitchDaemon.run (with the   *)
(* toggle_kill_switch / monitor_kill_switch_trigger calls it makes), and   *)
(* every further element is an activation of signal_handler, which Python  *)
(* runs on top of whatever the thread was doing and which has to return    *)
(* before the interrupted code goes on.  Only the topmost frame steps.  An *)
(* exception that leaves a frame is raised in the frame below it.          *)
(* The QEMU monitors and the trigger file are the environment: what every  *)
(* connect and every recv of a session ends with is chosen                 *)
(* nondeterministically.                                                   *)
(***************************************************************************)
EXTENDS Integers, Sequences, FiniteSets, TLC

\* ---------------------------------------------------------------- bounds
NumDevices == 2     \* at most this many configured devices
MaxSignals == 2     \* termination signals delivered in one run
MaxClock == 2       \* distinct timestamps the trigger file is written at

VARIABLES
    state_secure,   \* KillSwitchDaemon.state_secure
    running,        \* KillSwitchDaemon.running
    devices,        \* KillSwitchDaemon.devices, in configuration order
    stack,          \* call stack: run() at the bottom, signal handlers above
    trigger,        \* mtime of /tmp/vm-killswitch-trigger, 0 = no such file
    last_mtime,     \* monitor_kill_switch_trigger: last_mtime
    current_mtime,  \* monitor_kill_switch_trigger: current_mtime
    clock,          \* environment: the file system's current timestamp
    nsignals,       \* environment: signals delivered so far
    startup         \* history: the sweep made by run() before monitoring

vars == <<state_secure, running, devices, stack, trigger, last_mtime,
          current_mtime, clock, nsignals, startup>>

\* ------------------------------------------------------------ data model
\* DeviceState (src lines 25-29)
DeviceState == {"attached", "detached", "transitioning", "error"}

\* What load_configuration can put into Device.target_vm (line 204, 216; no
\* check): the name of a VM of vms.yaml, another hashable value, or a value
\* that cannot be a dict key (yaml loads target_vm: [vm1] as a list).
TargetVm == {"registered", "unregistered", "unhashable"}

\* Device (lines 31-39): the fields the daemon's control flow depends on.
\* name_str is whether the configured name is a string (yaml loads name: 7
\* as an int, and nothing checks it), so that device.name.replace exists.
\* id_json is whether json.dumps can serialise the arguments of the
\* device's device_add: it cannot when a PCI device's id, sent as host
\* (line 270), was loaded as a date or a set (id: 2024-01-01); a USB device's
\* arguments are f-strings (lines 260-262) and always can.
Device == [state : DeviceState, target_vm : TargetVm, name_str : BOOLEAN,
           id_json : BOOLEAN]

\* Of the configurations that differ only in a field that no statement
\* reads, one is kept: the name and the id of a device whose lookup does
\* not find a VM are never read, nor is the id of a device whose name is
\* not a string (building the arguments raises before json.dumps is called).
Read(dev) ==
    /\ dev.target_vm # "registered" => dev.name_str /\ dev.id_json
    /\ ~dev.name_str => dev.id_json

\* Outcomes of QMPClient.execute_command (lines 96-102): a reply without
\* "error", a reply with "error", or an exception (timeout, closed channel,
\* undecodable reply).
ExecuteOutcomes == {"ok", "error", "exception"}

\* Variant of InitSecure: the flag starts out true.
InitSecureTrue == TRUE

\* state_secure as set by __init__ (line 172)
InitSecure == FALSE

\* Variant of RunSecure: run() sets the flag to true before its first toggle.
RunSecureTrue == TRUE

\* state_secure as set by run() before its first toggle (line 395)
RunSecure == FALSE

\* A frame of the call stack.  kind/pc say where control is; caller is where
\* toggle_kill_switch returns to; mode, idx, success_count are the locals of
\* the sweep loop; op, sock, resp, result those of the attach/detach call in
\* progress on device idx (sock is QMPClient.sock, "none" for None); opens
\* and closes count the sockets that call created and closed; wire is what
\* the call's session has received and sent on its channel, in order; late
\* says that a signal handler has run while the session was blocked in
\* recv; pending says that bytes without a newline have arrived for a recv
\* of _receive_response and have not been read; log is the history of the
\* calls the sweep has made and what each returned.
Frame(kind, pc) ==
    [kind |-> kind, pc |-> pc, caller |-> "none", mode |-> "none",
     idx |-> 0, success_count |-> 0, log |-> <<>>,
     op |-> "none", sock |-> "none", opens |-> 0, closes |-> 0,
     wire |-> <<>>, late |-> FALSE, pending |-> FALSE, resp |-> "none",
     result |-> FALSE]

Top == stack[Len(stack)]
SetTop(f) == [stack EXCEPT ![Len(stack)] = f]
NDev == Len(devices)

\* The states a configuration can load (lines 187-237): each Device is built
\* with the dataclass default state DETACHED (line 39).
Configurations ==
    UNION { [1..n -> {dev \in Device : dev.state = "detached" /\ Read(dev)}] :
            n \in 0..NumDevices }

\* How load_configuration ends (lines 187-237): any exception while the two
\* files are read (a missing file, a missing key such as target_vm, an
\* unknown device type) is caught and the process exits (lines 235-237);
\* otherwise __init__ returns.  Nothing compares a device's target_vm with
\* the VMs that were loaded.
LoadOutcome(wellformed) == IF wellformed THEN "constructed" ELSE "exited"

\* State after KillSwitchDaemon() has been constructed (lines 168-185), or
\* after it has exited from load_configuration.
Init ==
    /\ state_secure = InitSecure
    /\ running = TRUE
    /\ devices \in Configurations
    /\ \E wellformed \in BOOLEAN :
         stack = << Frame("main", LoadOutcome(wellformed)) >>
    /\ trigger = 0
    /\ last_mtime = 0
    /\ current_mtime = 0
    /\ clock = 0
    /\ nsignals = 0
    /\ startup = [done |-> FALSE, calls |-> <<>>]

\* ------------------------------------------------- attach / detach calls
\* vm = self.vms.get(device.target_vm)  (lines 241, 291, outside the try):
\* dict.get hashes its key and raises TypeError for a list or a mapping.
LookupRaises(dev) == dev.target_vm = "unhashable"

\* if not vm: return False  (lines 242-244, 292-293), for a lookup that
\* did not raise
LookupFails(dev) == dev.target_vm = "unregistered"

\* Variant of StateOnConnectFailure: the path forgets to set the state.
StateOnConnectFailureKept == "transitioning"

\* device.state on the path where qmp.connect() returned False
\* (lines 250-253, 299-302)
StateOnConnectFailure == "error"

\* device.state set by the except clause (lines 284-287, 318-321)
StateOnException == "error"

\* Variant of FinishState: an error reply is not looked at.
FinishStateIgnoringError(op, resp) ==
    IF op = "attach" THEN "attached" ELSE "detached"

\* device.state after a reply was received and the session closed
\* (lines 275-280, 309-314)
FinishState(op, resp) ==
    IF resp = "error" THEN "error"
    ELSE IF op = "attach" THEN "attached" ELSE "detached"

\* return value on that path (lines 278, 282, 312, 316)
FinishResult(resp) == resp # "error"

\* sock.connect on the monitor's socket path (line 59): it raises
\* ("refused": no such socket, nobody listening) or returns.
ConnectEvents == {"refused", "connected"}

\* What the first recv of connect finds (line 62): "timeout" = nothing
\* arrives within 5 s and recv raises, "closed" = the peer has closed and
\* recv returns b"" without raising, "greeting" = data arrives.
GreetingEvents == {"timeout", "closed", "greeting"}

\* What _receive_response gives for qmp_capabilities (lines 67-70, 84-94):
\* {"return": {}}, another decoded object (an "error" reply, a non-empty
\* return), or an exception (timeout, undecodable or empty data).
CapsReplies == {"return_empty", "other", "exception"}

\* A closed channel delivers nothing more: json.loads of the empty reply
\* raises (line 94).  wire is the record of the channel so far.
CanReply(wire, caps) == wire[1] # "recv greeting" => caps = "exception"

\* sock.send of a command (line 82): the bytes are handed to the channel,
\* or send raises (BrokenPipeError: the peer has closed).
SendEvents == {"sent", "raises"}

\* The record of the channel after the first recv (line 62).  The data is
\* logged and not looked at; b"" from a closed peer is no message.
Received(event) ==
    IF event = "greeting" THEN <<"recv greeting">> ELSE <<>>

\* id=f"usb-{device.name.replace(' ', '_')}" and the like (lines 260, 269,
\* 304): evaluated after connect() returned True and before anything is
\* sent; it raises AttributeError when the name is not a string.
NameRaises(dev) == ~dev.name_str

\* cmd_json = json.dumps(command)  (line 81) for the call's command: it
\* raises TypeError when device_add's arguments cannot be serialised;
\* device_del's only argument is a string built from the name (line 304).
DumpsRaises(dev, op) == op = "attach" /\ ~dev.id_json

\* Variant of HandshakeOk: the reply to qmp_capabilities is not compared.
HandshakeOkAnyReply(caps) == TRUE

\* return response.get("return") == {}  (line 70), for a reply that was
\* decoded.
HandshakeOk(caps) == caps = "return_empty"

\* The command of the call (lines 257-271, 306)
Command(op) == IF op = "attach" THEN "send device_add" ELSE "send device_del"

\* self.sock.close()  (line 77)
CloseSocket(f) == [f EXCEPT !.closes = @ + 1]

\* self.sock = None  (line 78)
ForgetSocket(f) == [f EXCEPT !.sock = "none"]

\* A frame whose session is blocked in recv (lines 62, 68 / 87, 102 / 87),
\* under the 5 s timeout of its socket (line 58).
Waiting(f) == f.pc = "c_session" /\ f.sock = "open" /\ f.closes = 0

\* A frame whose session is in _receive_response (lines 84-94), after the
\* send of qmp_capabilities or of the call's command.
InReceive(f) ==
    /\ Waiting(f)
    /\ f.wire # <<>>
    /\ f.wire[Len(f.wire)] \in {"send qmp_capabilities", Command(f.op)}

\* The stack when a signal interrupts its top frame.  signal_handler then
\* runs for a time that can be longer than the timeout (its logging writes
\* to a file and a stream, lines 377 and 382; its detach calls wait for
\* monitors), so that a recv the frame was blocked in may have used up its
\* timeout, which it finds out when it resumes: late.
Delay(stk) ==
    [stk EXCEPT ![Len(stk)] =
        IF Waiting(@) THEN [@ EXCEPT !.late = TRUE] ELSE @]

\* What a recv of frame f can end with: what the monitor offers, and the
\* timeout when a signal handler has run for long enough meanwhile.
Outcomes(f, offered, timeout) ==
    IF f.late THEN offered \cup {timeout} ELSE offered

\* chunk = self.sock.recv(1024); response += chunk; no b"\n" in it: the
\* loop of _receive_response calls recv again, with a full timeout
\* (lines 86-92).
ReadChunk(f) == [f EXCEPT !.pending = FALSE, !.late = FALSE]

\* The record a frame keeps of a session that is over
EndWire(wire, traced) == IF traced THEN wire ELSE <<>>

\* The steps of the session of one call (lines 248-273, 297-307).  A signal
\* can be delivered between any two of them, and signal_handler then runs,
\* with sessions of its own, before the interrupted session goes on.  The
\* parameters are what the monitor may do; traced says whether the frame
\* keeps the record of the channel (wire) once the session is over.
\*
\* qmp = QMPClient(path); connect(): the socket is created and connected
\* (lines 57-59).  When sock.connect raises, connect() returns False
\* (lines 71-73) with self.sock still set, and the call sets ERROR and
\* returns False (lines 250-253, 299-302).
SessionOpen(connects) ==
    LET f == Top
        g == [f EXCEPT !.sock = "open", !.opens = @ + 1] IN
    /\ f.pc = "c_session"
    /\ f.sock = "none"
    /\ f.opens = 0
    /\ \E event \in connects :
         IF event = "refused"
         THEN /\ devices' = [devices EXCEPT
                               ![f.idx].state = StateOnConnectFailure]
              /\ stack' = SetTop([g EXCEPT !.pc = "c_ret", !.result = FALSE])
         ELSE /\ stack' = SetTop(g)
              /\ UNCHANGED devices
    /\ UNCHANGED <<state_secure, running, trigger, last_mtime, current_mtime,
                   clock, nsignals, startup>>

\* connect(): the first recv, one call of recv (line 62), and the send of
\* qmp_capabilities (lines 66-67, 80-82).  A recv or a send that raises
\* makes connect() return False (lines 71-73), and the call sets ERROR and
\* returns False.
SessionGreeting(greetings, sends, traced) ==
    LET f == Top IN
    /\ Waiting(f)
    /\ f.wire = <<>>
    /\ \E event \in Outcomes(f, greetings, "timeout") : \E send \in sends :
         IF event = "timeout" \/ send = "raises"
         THEN /\ devices' = [devices EXCEPT
                               ![f.idx].state = StateOnConnectFailure]
              /\ stack' = SetTop(
                    [f EXCEPT !.pc = "c_ret", !.result = FALSE,
                              !.late = FALSE,
                              !.wire = IF event = "timeout" THEN <<>>
                                       ELSE EndWire(Received(event), traced)])
         ELSE /\ stack' = SetTop(
                    [f EXCEPT !.wire = Received(event)
                                         \o <<"send qmp_capabilities">>,
                              !.late = FALSE])
              /\ UNCHANGED devices
    /\ UNCHANGED <<state_secure, running, trigger, last_mtime, current_mtime,
                   clock, nsignals, startup>>

\* connect(): one recv of _receive_response for the reply to
\* qmp_capabilities (lines 68, 84-94).  Bytes without a newline are kept
\* and recv is called again.  Otherwise the reply is complete or recv
\* raised, and connect() returns (lines 70-73): on False the call sets
\* ERROR and returns False (lines 250-253, 299-302); on True the call builds
\* its command and sends it (lines 255-271, 304-306, 97-101, 80-82), and an
\* exception there (the name is not a string, the arguments cannot be
\* serialised, send raises) goes to the except clause (lines 284-287,
\* 318-321).
SessionCaps(capsReplies, sends, traced) ==
    LET f == Top IN
    /\ Waiting(f)
    /\ f.wire # <<>>
    /\ f.wire[Len(f.wire)] = "send qmp_capabilities"
    /\ IF f.pending
       THEN /\ stack' = SetTop(ReadChunk(f))
            /\ UNCHANGED devices
       ELSE \E caps \in Outcomes(f, capsReplies, "exception") :
            \E send \in sends :
              LET got == IF caps = "exception" THEN f.wire
                         ELSE f.wire \o <<"recv " \o caps>> IN
              /\ CanReply(f.wire, caps)
              /\ IF caps = "exception" \/ ~HandshakeOk(caps)
                 THEN /\ devices' = [devices EXCEPT
                                       ![f.idx].state = StateOnConnectFailure]
                      /\ stack' = SetTop(
                            [f EXCEPT !.pc = "c_ret", !.result = FALSE,
                                      !.late = FALSE,
                                      !.wire = EndWire(got, traced)])
                 ELSE IF \/ NameRaises(devices[f.idx])
                         \/ DumpsRaises(devices[f.idx], f.op)
                         \/ send = "raises"
                 THEN /\ devices' = [devices EXCEPT
                                       ![f.idx].state = StateOnException]
                      /\ stack' = SetTop(
                            [f EXCEPT !.pc = "c_ret", !.result = FALSE,
                                      !.late = FALSE,
                                      !.wire = EndWire(got, traced)])
                 ELSE /\ stack' = SetTop(
                            [f EXCEPT !.wire = got \o <<Command(f.op)>>,
                                      !.late = FALSE])
                      /\ UNCHANGED devices
    /\ UNCHANGED <<state_secure, running, trigger, last_mtime, current_mtime,
                   clock, nsignals, startup>>

\* execute_command: one recv of _receive_response for the reply to the
\* command (lines 102, 84-94).  Bytes without a newline are kept and recv
\* is called again.  An exception goes to the except clause of the call
\* (lines 284-287, 318-321); otherwise response is assigned and
\* qmp.disconnect() starts with self.sock.close() (lines 273, 307, 77).
SessionReply(replies, traced) ==
    LET f == Top IN
    /\ Waiting(f)
    /\ f.wire # <<>>
    /\ f.wire[Len(f.wire)] = Command(f.op)
    /\ IF f.pending
       THEN /\ stack' = SetTop(ReadChunk(f))
            /\ UNCHANGED devices
       ELSE \E reply \in Outcomes(f, replies, "exception") :
              IF reply = "exception"
              THEN /\ devices' = [devices EXCEPT
                                    ![f.idx].state = StateOnException]
                   /\ stack' = SetTop(
                         [f EXCEPT !.pc = "c_ret", !.result = FALSE,
                                   !.late = FALSE,
                                   !.wire = EndWire(@, traced)])
              ELSE /\ stack' = SetTop(
                         [CloseSocket(f) EXCEPT !.resp = reply,
                                                !.late = FALSE])
                   /\ UNCHANGED devices
    /\ UNCHANGED <<state_secure, running, trigger, last_mtime, current_mtime,
                   clock, nsignals, startup>>

\* disconnect() ends with self.sock = None (line 78) and returns
SessionClosed(traced) ==
    LET f == Top IN
    /\ f.pc = "c_session"
    /\ f.closes > 0
    /\ stack' = SetTop([ForgetSocket(f) EXCEPT !.pc = "c_finish",
                                               !.wire = EndWire(@, traced)])
    /\ UNCHANGED <<state_secure, running, devices, trigger, last_mtime,
                   current_mtime, clock, nsignals, startup>>

CallSessionWith(connects, greetings, sends, capsReplies, replies, traced) ==
    \/ SessionOpen(connects)
    \/ SessionGreeting(greetings, sends, traced)
    \/ SessionCaps(capsReplies, sends, traced)
    \/ SessionReply(replies, traced)
    \/ SessionClosed(traced)

\* The session with a monitor that may do anything
CallSession ==
    CallSessionWith(ConnectEvents, GreetingEvents, SendEvents, CapsReplies,
                    ExecuteOutcomes, FALSE)

\* The same, keeping the record of the channel
CallSessionTraced ==
    CallSessionWith(ConnectEvents, GreetingEvents, SendEvents, CapsReplies,
                    ExecuteOutcomes, TRUE)

\* The session with a monitor that is reachable and accepts every command:
\* it accepts the connection, greets, and answers every command at once
\* with a complete {"return": {}}.  What the daemon does by itself stays: a
\* recv that a signal handler has delayed can time out, and a call whose
\* command cannot be built or serialised raises.
CallSessionAccepted ==
    CallSessionWith({"connected"}, {"greeting"}, {"sent"}, {"return_empty"},
                    {"ok"}, FALSE)

\* if "error" in response: state = ERROR; return False
\* else: state = ATTACHED / DETACHED; return True  (lines 275-282, 309-316)
CallFinish ==
    LET f == Top IN
    /\ f.pc = "c_finish"
    /\ devices' = [devices EXCEPT ![f.idx].state = FinishState(f.op, f.resp)]
    /\ stack' = SetTop([f EXCEPT !.pc = "c_ret",
                                 !.result = FinishResult(f.resp)])
    /\ UNCHANGED <<state_secure, running, trigger, last_mtime, current_mtime,
                   clock, nsignals, startup>>

\* ------------------------------------------------------------ the sweeps
\* if self.state_secure: attach sweep, else: detach sweep (line 325)
SweepMode(secure) == IF secure THEN "attach" ELSE "detach"

\* if self.attach_device_to_vm(device): success_count += 1
\* (lines 330-331, 343-344)
CountSuccess(success_count, result) ==
    IF result THEN success_count + 1 ELSE success_count

\* for device in self.devices.values(): the index of the next device, 0
\* when the loop is over (lines 329, 342, 383).  The loops do not look at
\* what the previous call returned.
NextDevice(idx, total) == IF idx < total THEN idx + 1 ELSE 0

\* Variant of SecureAfter: the flag flips whatever the count is.
SecureAfterAnyCount(mode, secure, success_count, total) == mode = "detach"

\* self.state_secure after the sweep (lines 333-337, 346-350)
SecureAfter(mode, secure, success_count, total) ==
    IF success_count = total THEN mode = "detach" ELSE secure

\* Variant of HandlerSweeps: the handler sweeps whatever the flag is.
HandlerSweepsAlways(secure) == TRUE

\* if not self.state_secure: the handler's sweep (line 381)
HandlerSweeps(secure) == ~secure

\* The calls of a log without their results
Calls(log) == [i \in 1..Len(log) |-> [op |-> log[i].op, dev |-> log[i].dev]]

\* The for loop of a sweep at its head (lines 329, 342, 383) in frame f.
\* Either the loop is over, or the call on the next device starts:
\* vm = self.vms.get(device.target_vm), which may raise; if not vm: return
\* False; else device.state = TRANSITIONING  (lines 241-246, 291-295).
LoopFrame(f) ==
    LET nxt == NextDevice(f.idx, NDev) IN
    IF nxt = 0
    THEN [f EXCEPT !.pc = IF f.kind = "main" THEN "toggle_end" ELSE "h_done"]
    ELSE IF LookupRaises(devices[nxt])
    THEN [f EXCEPT !.pc = "raised", !.idx = nxt, !.op = f.mode]
    ELSE IF LookupFails(devices[nxt])
    THEN [f EXCEPT !.pc = "c_ret", !.idx = nxt, !.op = f.mode,
                   !.result = FALSE]
    ELSE [f EXCEPT !.pc = "c_session", !.idx = nxt, !.op = f.mode]

\* self.devices after that step
LoopDevices(f) ==
    LET nxt == NextDevice(f.idx, NDev) IN
    IF nxt # 0 /\ ~LookupRaises(devices[nxt]) /\ ~LookupFails(devices[nxt])
    THEN [devices EXCEPT ![nxt].state = "transitioning"]
    ELSE devices

\* ----------------------------------------------------------- exceptions
\* A frame that is inside the try of an attach/detach call (lines 248-283,
\* 297-317): every statement after device.state = TRANSITIONING.
InCallTry(f) == f.pc \in {"c_session", "c_finish"}

\* Of those, a frame that is inside connect() (lines 56-70), whose own
\* except clause makes it return False (lines 71-73).
InConnect(f) ==
    /\ f.pc = "c_session"
    /\ f.closes = 0
    /\ f.wire = <<>> \/ f.wire[Len(f.wire)] = "send qmp_capabilities"

\* A frame of run() that is inside the try of the monitor loop
\* (lines 361-369), toggle_kill_switch included (line 366).
InMonitorTry(f) ==
    \/ f.pc \in {"mon_poll", "mon_after"}
    \/ (/\ f.caller = "monitor"
        /\ f.pc \in {"toggle_entry", "c_ret", "toggle_end", "raised"})

\* except Exception in the monitor loop (lines 370-373): the error is
\* logged, last_mtime and the trigger file stay as they are, and the loop
\* sleeps and tests self.running again.
MonitorCaught(f) == [Frame("main", "mon_while") EXCEPT !.caller = f.caller]

\* An exception that nothing catches leaves run() and main() (lines 396,
\* 399, 406): the process ends with a traceback.
Crashed(f) == [f EXCEPT !.pc = "crashed"]

\* except in the call of frame f (lines 71-73 and 250-253 / 299-302 inside
\* connect(), lines 284-287 / 318-321 elsewhere): the call returns False.
CallCaught(f) ==
    [f EXCEPT !.pc = "c_ret", !.result = FALSE, !.late = FALSE,
              !.pending = FALSE, !.wire = <<>>]

\* The index of the frame in whose call an exception raised in the top
\* frame of stk is caught, 0 when no call catches it.  An exception that
\* leaves signal_handler is raised in the frame the handler interrupted.
RECURSIVE CatchingFrame(_)
CatchingFrame(stk) ==
    LET n == Len(stk) IN
    IF stk[n].kind = "main" THEN 0
    ELSE IF InCallTry(stk[n - 1]) THEN n - 1
    ELSE CatchingFrame(SubSeq(stk, 1, n - 1))

\* The stack after an exception raised in the top frame of stk, outside
\* every try of that frame's call, has been caught or has ended run().
RECURSIVE Unwound(_)
Unwound(stk) ==
    LET n == Len(stk)
        f == stk[n]
        rest == SubSeq(stk, 1, n - 1) IN
    IF f.kind = "main"
    THEN << IF InMonitorTry(f) THEN MonitorCaught(f) ELSE Crashed(f) >>
    ELSE IF InCallTry(rest[n - 1])
    THEN [rest EXCEPT ![n - 1] = CallCaught(@)]
    ELSE Unwound(rest)

\* self.devices after that
UnwoundDevices(stk) ==
    LET c == CatchingFrame(stk) IN
    IF c = 0 THEN devices
    ELSE [devices EXCEPT
            ![stk[c].idx].state = IF InConnect(stk[c])
                                  THEN StateOnConnectFailure
                                  ELSE StateOnException]

\* The stack and self.devices after the loop step of frame g, the top frame
LoopStack(g) ==
    LET h == LoopFrame(g) IN
    IF h.pc = "raised" THEN Unwound(SetTop(h)) ELSE SetTop(h)

LoopState(g) ==
    IF LoopFrame(g).pc = "raised" THEN UnwoundDevices(SetTop(LoopFrame(g)))
    ELSE LoopDevices(g)

\* toggle_kill_switch entry: choice of the branch, success_count = 0, and
\* the first iteration of the loop (lines 325-329, 338-342).  A lookup that
\* raises ends toggle_kill_switch with the exception.
ToggleEntry ==
    LET f == Top
        g == [f EXCEPT !.mode = SweepMode(state_secure),
                       !.idx = 0, !.success_count = 0, !.log = <<>>] IN
    /\ f.pc = "toggle_entry"
    /\ stack' = LoopStack(g)
    /\ devices' = LoopState(g)
    /\ UNCHANGED <<state_secure, running, trigger, last_mtime,
                   current_mtime, clock, nsignals, startup>>

\* Return of attach_device_to_vm / detach_device_from_vm into the loop and
\* the loop's next iteration: toggle_kill_switch counts a True (lines
\* 330-331, 343-344), the signal handler drops the value (line 384), which
\* its log records as FALSE.  A lookup that raises in the next iteration
\* ends the sweep with the exception.
CallReturn ==
    LET f == Top
        g == [f EXCEPT !.success_count = IF f.kind = "main"
                                         THEN CountSuccess(@, f.result) ELSE @,
                       !.log = Append(@, [op |-> f.op, dev |-> f.idx,
                                          ok |-> f.kind = "main" /\ f.result]),
                       !.op = "none", !.sock = "none", !.opens = 0,
                       !.closes = 0, !.wire = <<>>, !.late = FALSE,
                       !.pending = FALSE, !.resp = "none",
                       !.result = FALSE] IN
    /\ f.pc = "c_ret"
    /\ stack' = LoopStack(g)
    /\ devices' = LoopState(g)
    /\ UNCHANGED <<state_secure, running, trigger, last_mtime,
                   current_mtime, clock, nsignals, startup>>

\* End of toggle_kill_switch (lines 333-337, 346-350) and return to the
\* caller, which ends the life of the sweep's locals: run() goes on to
\* monitor_kill_switch_trigger (line 399), the monitor to line 367.
ToggleEnd ==
    LET f == Top IN
    /\ f.pc = "toggle_end"
    /\ state_secure' = SecureAfter(f.mode, state_secure, f.success_count, NDev)
    /\ stack' = SetTop([Frame("main", IF f.caller = "run" THEN "mon_while"
                                                           ELSE "mon_after")
                          EXCEPT !.caller = f.caller])
    /\ startup' = IF f.caller = "run"
                  THEN [done |-> TRUE, calls |-> Calls(f.log)]
                  ELSE startup
    /\ UNCHANGED <<running, devices, trigger, last_mtime, current_mtime,
                   clock, nsignals>>

\* ------------------------------------------------------------------ run
\* signal.signal(SIGTERM/SIGINT, self.signal_handler)  (lines 389-392)
RunStart ==
    LET f == Top IN
    /\ f.pc = "constructed"
    /\ stack' = SetTop([f EXCEPT !.pc = "run_init"])
    /\ UNCHANGED <<state_secure, running, devices, trigger, last_mtime,
                   current_mtime, clock, nsignals, startup>>

\* self.state_secure = False; self.toggle_kill_switch()  (lines 395-396)
RunInit ==
    LET f == Top IN
    /\ f.pc = "run_init"
    /\ state_secure' = RunSecure
    /\ stack' = SetTop([f EXCEPT !.pc = "toggle_entry", !.caller = "run"])
    /\ UNCHANGED <<running, devices, trigger, last_mtime, current_mtime,
                   clock, nsignals, startup>>

\* while self.running  (line 360)
LoopGoesOn(isRunning) == isRunning

\* while self.running  (line 360); leaving the loop ends run() (line 401)
MonitorWhile ==
    LET f == Top IN
    /\ f.pc = "mon_while"
    /\ stack' = SetTop([f EXCEPT !.pc = IF LoopGoesOn(running)
                                        THEN "mon_poll" ELSE "stopped"])
    /\ UNCHANGED <<state_secure, running, devices, trigger, last_mtime,
                   current_mtime, clock, nsignals, startup>>

\* logging.info("... stopped") is done, run() returns to main(), which
\* returns: the process ends (lines 401, 406).
RunReturn ==
    LET f == Top IN
    /\ Len(stack) = 1
    /\ f.pc = "stopped"
    /\ stack' = SetTop([f EXCEPT !.pc = "returned"])
    /\ UNCHANGED <<state_secure, running, devices, trigger, last_mtime,
                   current_mtime, clock, nsignals, startup>>

\* Variant of MtimeChanged: every marker found counts.
MtimeChangedAlways(current, last) == TRUE

\* if current_mtime != last_mtime  (line 364)
MtimeChanged(current, last) == current # last

\* if os.path.exists(trigger_file): current_mtime = getmtime;
\* if current_mtime != last_mtime: toggle  (lines 362-366); otherwise
\* time.sleep(0.5) and the next iteration (line 373)
MonitorPoll ==
    LET f == Top IN
    /\ f.pc = "mon_poll"
    /\ IF trigger # 0
       THEN /\ current_mtime' = trigger
            /\ stack' = SetTop(
                 IF MtimeChanged(trigger, last_mtime)
                 THEN [f EXCEPT !.pc = "toggle_entry", !.caller = "monitor"]
                 ELSE [f EXCEPT !.pc = "mon_while"])
       ELSE /\ stack' = SetTop([f EXCEPT !.pc = "mon_while"])
            /\ UNCHANGED current_mtime
    /\ UNCHANGED <<state_secure, running, devices, trigger, last_mtime,
                   clock, nsignals, startup>>

\* last_mtime = current_mtime; os.remove(trigger_file); sleep
\* (lines 367-373; os.remove of a file that is gone raises and is caught)
MonitorAfter ==
    LET f == Top IN
    /\ f.pc = "mon_after"
    /\ last_mtime' = current_mtime
    /\ trigger' = 0
    /\ stack' = SetTop([f EXCEPT !.pc = "mon_while"])
    /\ UNCHANGED <<state_secure, running, devices, current_mtime,
                   clock, nsignals, startup>>

\* ------------------------------------------------------- signal handler
\* Delivery of SIGTERM or SIGINT once run() has registered the handler
\* (lines 389-390; nothing unregisters it) and the process has not ended:
\* Python runs signal_handler on top of the current frame, also on top of a
\* handler that is still running, and also when the monitor loop is over
\* and run() is at line 401.
Signal ==
    /\ nsignals < MaxSignals
    /\ stack[1].pc \notin {"constructed", "returned", "crashed", "exited"}
    /\ nsignals' = nsignals + 1
    /\ stack' = Append(Delay(stack), Frame("handler", "h_entry"))
    /\ UNCHANGED <<state_secure, running, devices, trigger, last_mtime,
                   current_mtime, clock, startup>>

\* self.running = False; if not self.state_secure: for device in ...
\* with the first iteration of that loop (lines 377-384).  A lookup that
\* raises there ends signal_handler with the exception, which is raised in
\* the frame the handler had interrupted.
HandlerEntry ==
    LET f == Top
        g == [f EXCEPT !.mode = "detach", !.caller = "signal"] IN
    /\ f.pc = "h_entry"
    /\ running' = FALSE
    /\ IF HandlerSweeps(state_secure)
       THEN /\ stack' = LoopStack(g)
            /\ devices' = LoopState(g)
       ELSE /\ stack' = SetTop([f EXCEPT !.pc = "h_done",
                                         !.caller = "signal"])
            /\ UNCHANGED devices
    /\ UNCHANGED <<state_secure, trigger, last_mtime, current_mtime,
                   clock, nsignals, startup>>

\* signal_handler returns; the interrupted frame goes on
HandlerReturn ==
    /\ Top.pc = "h_done"
    /\ stack' = SubSeq(stack, 1, Len(stack) - 1)
    /\ UNCHANGED <<state_secure, running, devices, trigger, last_mtime,
                   current_mtime, clock, nsignals, startup>>

\* ---------------------------------------------------------- environment
\* Somebody writes /tmp/vm-killswitch-trigger: its mtime becomes the
\* current timestamp, which is that of the previous write or a later one.
Touch ==
    /\ stack[1].pc \notin {"returned", "crashed", "exited"}
    /\ \E t \in {clock, clock + 1} :
         /\ t > 0
         /\ t <= MaxClock
         /\ clock' = t
         /\ trigger' = t
    /\ UNCHANGED <<state_secure, running, devices, stack, last_mtime,
                   current_mtime, nsignals, startup>>

\* A monitor writes bytes that hold no newline to the channel of the
\* session that is waiting in _receive_response.  A peer that has closed
\* the channel writes nothing.
Dribble ==
    LET f == Top IN
    /\ InReceive(f)
    /\ f.wire[1] = "recv greeting"
    /\ ~f.pending
    /\ stack' = SetTop([f EXCEPT !.pending = TRUE])
    /\ UNCHANGED <<state_secure, running, devices, trigger, last_mtime,
                   current_mtime, clock, nsignals, startup>>

Next ==
    \/ RunStart
    \/ RunInit
    \/ ToggleEntry
    \/ CallSession
    \/ CallFinish
    \/ CallReturn
    \/ ToggleEnd
    \/ MonitorWhile
    \/ MonitorPoll
    \/ MonitorAfter
    \/ RunReturn
    \/ Signal
    \/ HandlerEntry
    \/ HandlerReturn
    \/ Touch
    \/ Dribble

Spec == Init /\ [][Next]_vars

\* The steps of the daemon's thread.  The thread keeps running, and every
\* connect, send and recv returns or raises within the 5 s timeout of its
\* socket (line 58), so a step that can be taken is taken: weak fairness of
\* DaemonStep.  Nothing bounds how many recv calls _receive_response makes.
DaemonStep ==
    \/ RunStart
    \/ RunInit
    \/ ToggleEntry
    \/ CallSession
    \/ CallFinish
    \/ CallReturn
    \/ ToggleEnd
    \/ MonitorWhile
    \/ MonitorPoll
    \/ MonitorAfter
    \/ RunReturn
    \/ HandlerEntry
    \/ HandlerReturn

FairSpec == Spec /\ WF_vars(DaemonStep)

\* The daemon with monitors that are all reachable and accept every command
NextAccepted ==
    \/ RunStart
    \/ RunInit
    \/ ToggleEntry
    \/ CallSessionAccepted
    \/ CallFinish
    \/ CallReturn
    \/ ToggleEnd
    \/ MonitorWhile
    \/ MonitorPoll
    \/ MonitorAfter
    \/ RunReturn
    \/ Signal
    \/ HandlerEntry
    \/ HandlerReturn
    \/ Touch

SpecAccepted == Init /\ [][NextAccepted]_vars

\* ------------------------------------------- toggle_kill_switch on its own
\* toggle_kill_switch (lines 323-350) called on a daemon in any state its
\* arguments allow: any flag, and devices in any state a finished call can
\* leave (Device, lines 31-39), with or without a registered target VM.
ToggleInputs ==
    UNION { [1..n -> {dev \in Device : /\ dev.state # "transitioning"
                                       /\ Read(dev)}] :
            n \in 1..NumDevices }

InitToggle ==
    /\ state_secure \in BOOLEAN
    /\ running = TRUE
    /\ devices \in ToggleInputs
    /\ stack = << [Frame("main", "toggle_entry") EXCEPT !.caller = "monitor"] >>
    /\ trigger = 0
    /\ last_mtime = 0
    /\ current_mtime = 0
    /\ clock = 0
    /\ nsignals = 0
    /\ startup = [done |-> TRUE, calls |-> <<>>]

NextToggle ==
    \/ ToggleEntry
    \/ CallSessionTraced
    \/ CallFinish
    \/ CallReturn
    \/ ToggleEnd
    \/ Dribble

SpecToggle == InitToggle /\ [][NextToggle]_vars

TypeOK ==
    /\ state_secure \in BOOLEAN
    /\ running \in BOOLEAN
    /\ Len(devices) <= NumDevices
    /\ Len(stack) >= 1
    /\ stack[1].kind = "main"
    /\ \A i \in 2..Len(stack) : stack[i].kind = "handler"

\* ---------------------------------------------------------------- claims
FullSweep(op) == [i \in 1..NDev |-> [op |-> op, dev |-> i]]
InCall(f) == f.pc \in {"c_session", "c_finish", "c_ret"}
Frames == 1..Len(stack)

\* C1 (as claimed): every run of the signal handler makes one detach
\* attempt on each configured device, whatever state_secure is.
C1_ShutdownAlwaysSweeps ==
    \A i \in Frames :
        (stack[i].kind = "handler" /\ stack[i].pc = "h_done")
            => Calls(stack[i].log) = FullSweep("detach")

\* C2: state_secure goes from true to false only at the end of an attach
\* sweep in which the call on every device returned True (success_count =
\* total), from false to true only at the end of such a detach sweep, and a
\* sweep with a failed call leaves it as it was.
C2_Step ==
    LET f == Top
        allOk(op) ==
            /\ f.kind = "main"
            /\ f.pc = "toggle_end"
            /\ f.mode = op
            /\ f.success_count = NDev
            /\ Len(f.log) = NDev
            /\ \A i \in 1..NDev :
                 f.log[i] = [op |-> op, dev |-> i, ok |-> TRUE]
    IN  /\ (state_secure /\ ~state_secure') => allOk("attach")
        /\ (~state_secure /\ state_secure') => allOk("detach")
        /\ (/\ f.pc = "toggle_end"
            /\ \E i \in 1..Len(f.log) : ~f.log[i].ok)
               => state_secure' = state_secure

C2_SecureChangesOnlyOnFullSuccess == [][C2_Step]_vars

\* C2 witness: a trigger's attach sweep has ended with some but not all
\* devices attached and the flag is still true.
C2_Witness ==
    /\ stack[1].pc = "mon_after"
    /\ state_secure
    /\ \E d \in 1..NDev : devices[d].state = "attached"
    /\ \E d \in 1..NDev : devices[d].state = "error"

\* C3 (as claimed): at every step that sets state_secure to true, every
\* configured device's state is Detached.
C3_SecureOnlyWhenAllDetached ==
    [][(~state_secure /\ state_secure')
          => \A d \in 1..NDev : devices'[d].state = "detached"]_vars

\* C4 (as claimed): state_secure is true in the daemon's initial state.
C4_InitiallySecure == stack[1].pc = "constructed" => state_secure

\* C4 (amended): state_secure is false in the daemon's initial state and
\* stays false until the first sweep starts, whatever the configuration.
C4_InitiallyNotSecure ==
    stack[1].pc \in {"constructed", "run_init"} => ~state_secure

\* C4 witness: the daemon has been constructed with a full configuration
\* and run() has not started.
C4_Witness == stack[1].pc = "constructed" /\ NDev = NumDevices

\* C5 (as claimed): a call that opened a session has closed its channel
\* exactly once when it returns, and leaves no channel open.
C5_ChannelClosedOnce ==
    \A i \in Frames :
        (stack[i].pc = "c_ret" /\ stack[i].opens > 0)
            => (stack[i].closes = 1 /\ stack[i].sock = "none")

\* The calls a sweep has made: those that have returned and the one that
\* is in progress or has raised.
Attempts(f) == IF f.op = "none" THEN Len(f.log) ELSE Len(f.log) + 1

\* C6 (as claimed): a toggle calls attach (attach mode) or detach (detach
\* mode) once per device in configuration order, and has made exactly N
\* calls when it is over, whatever happened in each call.
C6_OneAttemptPerDevice ==
    \A i \in Frames :
        LET f == stack[i] IN
        (f.kind = "main" /\ f.mode # "none")
            => /\ \A j \in 1..Len(f.log) :
                    f.log[j].op = f.mode /\ f.log[j].dev = j
               /\ f.pc \in {"toggle_end", "crashed"} => Attempts(f) = NDev

\* C7 (as claimed): when a call returns, the device's state is Attached
\* after a successful attach, Detached after a successful detach, Error
\* after a failed attempt.
C7_StateMatchesResult ==
    \A i \in Frames :
        LET f == stack[i] IN
        f.pc = "c_ret"
            => devices[f.idx].state =
                 IF ~f.result THEN "error"
                 ELSE IF f.op = "attach" THEN "attached" ELSE "detached"

\* C7 (amended): for a device whose target VM is registered, the step of
\* the call that fixes its return value sets the state to Attached (attach,
\* True), Detached (detach, True) or Error (False); for a device whose
\* target_vm is hashable and names no registered VM the call returns False
\* and changes nothing; a call whose lookup raises returns nothing and
\* leaves its device's state as it was.
C7_Step ==
    LET f == Top
        nxt == NextDevice(IF f.pc = "c_ret" THEN f.idx ELSE 0, NDev) IN
    /\ \A i \in 1..Len(stack') :
         LET g == stack'[i] IN
         (/\ i <= Len(stack)
          /\ g.pc = "c_ret"
          /\ stack[i].pc # "c_ret" \/ stack[i].idx # g.idx)
             => IF LookupFails(devices[g.idx])
                THEN ~g.result /\ devices' = devices
                ELSE devices'[g.idx].state =
                       IF ~g.result THEN "error"
                       ELSE IF g.op = "attach" THEN "attached" ELSE "detached"
    /\ (/\ f.pc \in {"toggle_entry", "c_ret", "h_entry"}
        /\ stack' # stack
        /\ nsignals' = nsignals
        /\ nxt # 0
        /\ LookupRaises(devices[nxt]))
           => /\ devices'[nxt].state = devices[nxt].state
              /\ \A i \in 1..Len(stack') :
                   ~(stack'[i].idx = nxt /\ stack'[i].pc = "c_ret")

C7_OutcomeSetsState == [][C7_Step]_vars

\* C7 witness: an attach call is returning False after an error reply.
C7_Witness ==
    /\ Top.pc = "c_ret"
    /\ Top.op = "attach"
    /\ Top.resp = "error"
    /\ ~Top.result

\* C8: a device whose state is Transitioning has an attach/detach call in
\* progress on it, and no call returns with the device in Transitioning.
C8_TransitioningOnlyInCall ==
    /\ \A d \in 1..NDev :
          devices[d].state = "transitioning"
             => \E i \in Frames :
                   /\ stack[i].idx = d
                   /\ stack[i].pc \in {"c_session", "c_finish"}
    /\ Top.pc = "c_ret" => devices[Top.idx].state # "transitioning"

\* C8 witness: a call is returning after its connect failed.
C8_Witness ==
    /\ Top.pc = "c_ret"
    /\ Top.opens = 1
    /\ Top.closes = 0
    /\ Top.sock = "open"
    /\ devices[Top.idx].state = "error"

\* C9: the monitor loop runs, a trigger is observed, a trigger's toggle or
\* an attach call starts only after run() has finished one detach sweep
\* over all configured devices.
C9_StartupSweepFirst ==
    (\/ stack[1].pc \in {"mon_while", "mon_poll", "mon_after", "stopped",
                        "returned"}
     \/ stack[1].caller = "monitor"
     \/ current_mtime # 0
     \/ \E i \in Frames : stack[i].op = "attach" \/ stack[i].mode = "attach")
        => (startup.done /\ startup.calls = FullSweep("detach"))

\* C9 witness: the monitor has observed a trigger, with a full
\* configuration in which a device names an unknown VM.
C9_Witness ==
    /\ current_mtime # 0
    /\ NDev = NumDevices
    /\ \E d \in 1..NDev : devices[d].target_vm = "unregistered"

\* C10: while a sweep is between the start of its first call and the
\* return of its last one, every call made (by a signal handler running on
\* top of it) is of the sweep's own kind.
C10_NoInterleaving ==
    \A i \in Frames : \A j \in Frames :
        LET a == stack[i]
            b == stack[j] IN
        (/\ i < j
         /\ a.mode # "none"
         /\ a.idx >= 1
         /\ Len(a.log) < NDev
         /\ InCall(b))
            => b.op = a.mode

\* C10 witness: a signal handler has run to its end in the middle of an
\* attach sweep.
C10_Witness ==
    /\ Len(stack) = 2
    /\ stack[1].mode = "attach"
    /\ stack[1].idx >= 1
    /\ Len(stack[1].log) < NDev
    /\ stack[2].pc = "h_done"

\* C11 (as claimed): when a configured device names a VM that is not
\* configured, the process has exited from load_configuration; the daemon
\* is never constructed, so no sweep starts and no session is opened.
C11_UnknownVmIsFatal ==
    (\E d \in 1..NDev : devices[d].target_vm # "registered")
        => stack[1].pc = "exited"

\* C12 (as claimed): the step that starts a call (attach or detach) on a
\* device whose target_vm is not in the VM registry takes the call to its
\* return at once, with the value False, no socket created and
\* self.devices unchanged.
C12_Step ==
    LET f == Top
        nxt == NextDevice(IF f.pc = "c_ret" THEN f.idx ELSE 0, NDev) IN
    (/\ f.kind = "main"
     /\ f.pc \in {"toggle_entry", "c_ret"}
     /\ stack' # stack
     /\ nsignals' = nsignals
     /\ nxt # 0
     /\ devices[nxt].target_vm # "registered")
        => /\ Len(stack') = Len(stack)
           /\ stack'[Len(stack)].pc = "c_ret"
           /\ stack'[Len(stack)].idx = nxt
           /\ ~stack'[Len(stack)].result
           /\ stack'[Len(stack)].opens = 0
           /\ stack'[Len(stack)].sock = "none"
           /\ devices' = devices

C12_UnknownVmNoEffect == [][C12_Step]_vars

\* C13: on every session a device_add or device_del is sent only as the
\* fourth message, after the greeting was received, qmp_capabilities sent
\* and {"return": {}} received; a session on which anything else came back
\* has sent no device command and its call returns False.
IsCommand(m) == m \in {"send device_add", "send device_del"}

C13_HandshakeBeforeCommand ==
    \A i \in Frames :
        LET f == stack[i] IN
        /\ \A k \in 1..Len(f.wire) :
              IsCommand(f.wire[k])
                 => /\ k = 4
                    /\ SubSeq(f.wire, 1, 3) = <<"recv greeting",
                                                "send qmp_capabilities",
                                                "recv return_empty">>
        /\ (/\ f.pc = "c_ret"
            /\ f.opens > 0
            /\ \A k \in 1..Len(f.wire) : f.wire[k] # "recv return_empty")
              => /\ ~f.result
                 /\ \A k \in 1..Len(f.wire) : ~IsCommand(f.wire[k])

\* C13 witness: a call is returning whose session got another reply than
\* {"return": {}} to qmp_capabilities.
C13_Witness ==
    /\ Top.pc = "c_ret"
    /\ Top.wire = <<"recv greeting", "send qmp_capabilities", "recv other">>

\* C14 (as claimed): with every device's target VM registered, reachable
\* and accepting every command, the first toggle a trigger causes is an
\* attach sweep with one successful attach per device in order, and the
\* step that ends it sets state_secure to false with every device Attached.
C14_Step ==
    LET f == Top IN
    (/\ f.pc = "toggle_end"
     /\ f.caller = "monitor"
     /\ last_mtime = 0
     /\ \A d \in 1..NDev : devices[d].target_vm = "registered")
        => /\ f.mode = "attach"
           /\ f.log = [i \in 1..NDev |->
                         [op |-> "attach", dev |-> i, ok |-> TRUE]]
           /\ (stack' # stack /\ Len(stack') = Len(stack))
                 => /\ ~state_secure'
                    /\ \A d \in 1..NDev : devices'[d].state = "attached"

C14_FirstToggleAttachesAll == [][C14_Step]_vars

\* C15: the monitor starts a toggle exactly when a poll finds the marker
\* with an mtime other than that of the last marker it counted; that toggle
\* is one call of toggle_kill_switch, after which the marker's mtime is
\* remembered and the marker removed, so no later poll counts it again.
C15_Step ==
    LET m == stack[1]
        n == stack'[1] IN
    /\ (m.pc = "mon_poll" /\ n.pc # "mon_poll")
          => /\ n.pc = "toggle_entry" <=> (trigger # 0 /\ trigger # last_mtime)
             /\ n.pc = "toggle_entry" => current_mtime' = trigger
    /\ (n.pc = "toggle_entry" /\ n.caller = "monitor" /\ m.pc # "toggle_entry")
          => m.pc = "mon_poll"
    /\ (m.pc = "toggle_end" /\ m.caller = "monitor" /\ n.pc # "toggle_end")
          => n.pc = "mon_after"
    /\ (m.pc = "mon_after" /\ n.pc # "mon_after")
          => /\ trigger' = 0
             /\ last_mtime' = current_mtime
             /\ n.pc = "mon_while"

C15_OneTogglePerMarker == [][C15_Step]_vars

\* C15 witness: the toggle of a second marker has returned after a first
\* marker, with another mtime, had been counted and removed.
C15_Witness ==
    /\ stack[1].pc = "mon_after"
    /\ last_mtime = 1
    /\ current_mtime = 2

\* C16 (as claimed): whenever no sweep is in progress and state_secure is
\* true, no configured device has the state Attached.
C16_SecureMeansNoneAttached ==
    (/\ Len(stack) = 1
     /\ stack[1].mode = "none"
     /\ state_secure)
        => \A d \in 1..NDev : devices[d].state # "attached"

\* C17 (as claimed): with every VM registered, reachable and accepting
\* every command, a daemon that has handled a termination signal and has
\* stopped has no device left attached.
C17_FailSecureAtStop ==
    (/\ stack[1].pc = "stopped"
     /\ nsignals > 0
     /\ \A d \in 1..NDev : /\ devices[d].target_vm = "registered"
                            /\ devices[d].name_str)
        => \A d \in 1..NDev : devices[d].state # "attached"

\* C18 (as claimed): once a signal handler has run and returned, no step
\* starts an attach call.
C18_NoAttachAfterSignal ==
    [][~(/\ ~running
         /\ Len(stack) = 1
         /\ Len(stack') = 1
         /\ stack'[1].op = "attach"
         /\ stack'[1].idx # stack[1].idx)]_vars

\* C19 (as claimed): once a termination signal has been delivered the
\* daemon eventually stops (run() returns, or has ended with an exception),
\* and once the handler has cleared self.running the monitor loop starts no
\* further iteration, so that at most the toggle of the iteration in
\* progress is still started.
C19_EventuallyStops ==
    /\ (nsignals > 0) ~> (stack[1].pc \in {"returned", "crashed"})
    /\ [][(~running /\ stack'[1].pc = "mon_poll")
             => stack[1].pc = "mon_poll"]_vars

====
